---------------------------- MODULE Spec2Model ----------------------------
(***************************************************************************)
(* CNAlign (src/CNAlign/core.py): the run of CNAlign() from input indexing *)
(* through model construction, the two-level solve steered by              *)
(* StagnationCallback, and the return of the result table; and, in a       *)
(* second specification, the constraint system the builder declares,       *)
(* explored over its feasible assignments.                                 *)
(*                                                                         *)
(* Objective values handed to the callback are integers in units of 1e-5   *)
(* (EPS = 1 unit).  Times are integer seconds.                             *)
(***************************************************************************)
EXTENDS Integers, Sequences, FiniteSets, TLC

VARIABLES pc, cfg, nVars, nConstrs, cellIdx, cb, now, objcnt, levelEnd,
          achieved, pool, signals, sigCount, ev, err, out, mip, xt

runVars == <<pc, cfg, nVars, nConstrs, cellIdx, cb, now, objcnt, levelEnd,
             achieved, pool, signals, sigCount, ev, err, out>>

vars == <<runVars, mip, xt>>

-----------------------------------------------------------------------------
(* Bounds of the exploration *)

MaxTime == 5
MaxStep == 2
MaxObj == 1

(* Program constants, in the model's units *)

EPS == 1
GRB_INFINITY == 1000
FloatInf == 2000

AllSamples == {"t1", "t2"}
AllSegments == {"s1", "s2"}
NoValue == 0 - 1

ReportValues == 0..2
Timeouts == {1, 2}

-----------------------------------------------------------------------------
(* Inputs of CNAlign(dat, ..., min_ploidy, max_ploidy, min_purity,         *)
(* max_purity, ..., timeout, min_cna_segments_per_sample, ..., sol_count)  *)

FullTable == AllSamples \X AllSegments

Inputs ==
    { [rows |-> FullTable, min_ploidy |-> 2, max_ploidy |-> 3,
       min_purity |-> 50, max_purity |-> 100, min_cna |-> 0,
       timeout |-> t, sol_count |-> 2, data_feasible |-> f]
        : t \in Timeouts, f \in BOOLEAN }
    \cup
    { [rows |-> FullTable \ {<<"t2", "s2">>}, min_ploidy |-> 2, max_ploidy |-> 3,
       min_purity |-> 50, max_purity |-> 100, min_cna |-> 0,
       timeout |-> 1, sol_count |-> 2, data_feasible |-> TRUE],
      [rows |-> FullTable, min_ploidy |-> 3, max_ploidy |-> 2,
       min_purity |-> 50, max_purity |-> 100, min_cna |-> 0,
       timeout |-> 1, sol_count |-> 2, data_feasible |-> TRUE],
      [rows |-> FullTable, min_ploidy |-> 2, max_ploidy |-> 3,
       min_purity |-> 100, max_purity |-> 50, min_cna |-> 0,
       timeout |-> 1, sol_count |-> 2, data_feasible |-> TRUE],
      [rows |-> FullTable, min_ploidy |-> 2, max_ploidy |-> 3,
       min_purity |-> 50, max_purity |-> 100, min_cna |-> 3,
       timeout |-> 1, sol_count |-> 2, data_feasible |-> TRUE] }

(* Samples = dat['sample'].unique(); Segments = dat['segment'].unique() *)
Samples(c) == { r[1] : r \in c.rows }
Segments(c) == { r[2] : r \in c.rows }

(* The order of "for s in Segments: for t in Samples" *)
SetToSeq(S) ==
    LET Names == <<"s1", "s2", "t1", "t2">>
    IN  SelectSeq(Names, LAMBDA x : x \in S)

CellOrder(c) ==
    LET segs == SetToSeq(Segments(c))
        smps == SetToSeq(Samples(c))
    IN  [i \in 1..(Len(segs) * Len(smps)) |->
            <<smps[((i - 1) % Len(smps)) + 1], segs[((i - 1) \div Len(smps)) + 1]>>]

(* A configuration error in the sense of the specification: min > max.    *)
ConfigError(c) == c.min_ploidy > c.max_ploidy \/ c.min_purity > c.max_purity

(* An input-shape error: a (sample, segment) pair missing from the table. *)
ShapeError(c) == c.rows # Samples(c) \X Segments(c)

(* A variable declared with lb > ub (pl, z, n_cna_segments_per_sample)    *)
(* leaves the system without any assignment.                              *)
BoundsCrossed(c) ==
    \/ c.min_ploidy > c.max_ploidy
    \/ c.min_purity > c.max_purity
    \/ c.min_cna > Cardinality(Segments(c))

Feasible(c) == ~BoundsCrossed(c) /\ c.data_feasible

-----------------------------------------------------------------------------
(* StagnationCallback *)

CallbackInit(max_stagnation_seconds, t) ==
    [max_stagnation |-> max_stagnation_seconds, obj_count |-> 0,
     last_improve_time |-> t, best_obj |-> FloatInf, stagnated |-> FALSE]

(* abs(current_obj - self.best_obj) in floating point: inf when one side is inf *)
AbsDiff(a, b) ==
    IF a = FloatInf \/ b = FloatInf THEN FloatInf
    ELSE IF a >= b THEN a - b ELSE b - a

Changed(cur, best) == AbsDiff(cur, best) > EPS

Stagnant(self, t) ==
    t - self.last_improve_time > self.max_stagnation /\ ~self.stagnated

(* cbStopOneMultiObj(0): the first level's number instead of the recorded one *)
StopCallFirstLevel(self) == [kind |-> "StopOneMultiObj", objcnt |-> 0]

StopCall(self) == [kind |-> "StopOneMultiObj", objcnt |-> self.obj_count]

(* the MULTIOBJ branch without "self.stagnated = False" *)
OnMultiObjKeepsStagnated(self, t, cnt) ==
    [self EXCEPT !.obj_count = cnt, !.best_obj = FloatInf,
                 !.last_improve_time = t]

OnMultiObj(self, t, cnt) ==
    [self EXCEPT !.obj_count = cnt, !.best_obj = FloatInf,
                 !.last_improve_time = t, !.stagnated = FALSE]

OnMip(self, t, cur) ==
    IF cur < GRB_INFINITY
    THEN IF Changed(cur, self.best_obj)
         THEN [self |-> [self EXCEPT !.best_obj = cur, !.last_improve_time = t],
               stop |-> <<>>]
         ELSE IF Stagnant(self, t)
              THEN [self |-> [self EXCEPT !.stagnated = TRUE],
                    stop |-> <<StopCall(self)>>]
              ELSE [self |-> self, stop |-> <<>>]
    ELSE [self |-> self, stop |-> <<>>]

(* __call__(model, where): fault = the cbGet of this invocation raises.    *)
(* escaped: the exception leaves __call__; logged: it was caught by the    *)
(* except clause and printed.                                              *)
Call(self, where, t, fault, value) ==
    IF where = "MULTIOBJ"
    THEN IF fault
         THEN [self |-> self, stop |-> <<>>, escaped |-> TRUE, logged |-> FALSE]
         ELSE [self |-> OnMultiObj(self, t, value), stop |-> <<>>,
               escaped |-> FALSE, logged |-> FALSE]
    ELSE IF where = "MIP"
    THEN IF fault
         THEN [self |-> self, stop |-> <<>>, escaped |-> FALSE, logged |-> TRUE]
         ELSE [self |-> OnMip(self, t, value).self, stop |-> OnMip(self, t, value).stop,
               escaped |-> FALSE, logged |-> FALSE]
    ELSE [self |-> self, stop |-> <<>>, escaped |-> FALSE, logged |-> FALSE]

-----------------------------------------------------------------------------
(* Objectives: setObjectiveN(expr, index, priority, weight)                *)

(* the two priorities exchanged *)
ObjPrioritySwapped(index) == IF index = 0 THEN 1 ELSE 2

ObjPriority(index) == IF index = 0 THEN 2 ELSE 1

ObjIndices == {0, 1}

(* The engine optimises the objectives in decreasing priority.            *)
LevelOrder ==
    IF ObjPriority(0) >= ObjPriority(1) THEN <<0, 1>> ELSE <<1, 0>>

NLevels == Len(LevelOrder)

Searching == LevelOrder[objcnt + 1]

-----------------------------------------------------------------------------
RunStart ==
    /\ pc = "start"
    /\ nVars = 0
    /\ nConstrs = 0
    /\ cellIdx = 1
    /\ now = 0
    /\ cb = CallbackInit(cfg.timeout, 0)
    /\ objcnt = 0
    /\ levelEnd = [i \in ObjIndices |-> "none"]
    /\ achieved = [i \in ObjIndices |-> NoValue]
    /\ pool = <<>>
    /\ signals = <<>>
    /\ sigCount = 0
    /\ ev = [where |-> "none", value |-> 0, fault |-> FALSE, time |-> 0, logged |-> FALSE]
    /\ err = "none"
    /\ out = [made |-> FALSE, columns |-> 0]

Init ==
    /\ cfg \in Inputs
    /\ RunStart
    /\ mip = [stage |-> "unsolved"]
    /\ xt = [stage |-> "unsolved"]

-----------------------------------------------------------------------------
(* CNAlign, lines 81-342: indexing, declaration, constraints, objectives  *)

(* addVars / addVar calls of lines 117-179, and the constraints one cell  *)
(* of the double loop adds (lines 194-295)                                *)
DeclaredGroups == 46
ConstrsPerCell == 47

(* Lines 81-92: unique samples and segments, index by (sample, segment),  *)
(* recode missing BAF.  Nothing is validated here.                        *)
IndexInput ==
    /\ pc = "start"
    /\ pc' = "declare"
    /\ UNCHANGED <<mip, xt>>
    /\ UNCHANGED <<cfg, nVars, nConstrs, cellIdx, cb, now, objcnt, levelEnd,
                   achieved, pool, signals, sigCount, ev, err, out>>

(* Lines 113-179: every variable is declared, and c_pl_avg is added.      *)
DeclareVars ==
    /\ pc = "declare"
    /\ nVars' = DeclaredGroups
    /\ nConstrs' = 1
    /\ cellIdx' = 1
    /\ pc' = "cells"
    /\ UNCHANGED <<mip, xt>>
    /\ UNCHANGED <<cfg, cb, now, objcnt, levelEnd, achieved, pool, signals,
                   sigCount, ev, err, out>>

(* Lines 183-295, one iteration: dat.loc[t,s] raises KeyError for a pair  *)
(* that is not in the table; otherwise the cell's constraints are added.  *)
BuildCell ==
    /\ pc = "cells"
    /\ cellIdx <= Len(CellOrder(cfg))
    /\ IF CellOrder(cfg)[cellIdx] \in cfg.rows
       THEN /\ nConstrs' = nConstrs + ConstrsPerCell
            /\ cellIdx' = cellIdx + 1
            /\ UNCHANGED <<pc, err>>
       ELSE /\ pc' = "raised"
            /\ err' = "KeyError"
            /\ UNCHANGED <<nConstrs, cellIdx>>
    /\ UNCHANGED <<mip, xt>>
    /\ UNCHANGED <<cfg, nVars, cb, now, objcnt, levelEnd, achieved, pool,
                   signals, sigCount, ev, out>>

(* Lines 297-341: allmatch indicators, per-sample sums, n_clonal, the     *)
(* error sums, the three setObjectiveN calls, ModelSense, update.         *)
FinishBuild ==
    /\ pc = "cells"
    /\ cellIdx > Len(CellOrder(cfg))
    /\ nConstrs' = nConstrs + Cardinality(Segments(cfg))
                     + 2 * Cardinality(Samples(cfg)) + 3
    /\ pc' = "optimize"
    /\ UNCHANGED <<mip, xt>>
    /\ UNCHANGED <<cfg, nVars, cellIdx, cb, now, objcnt, levelEnd, achieved,
                   pool, signals, sigCount, ev, err, out>>

-----------------------------------------------------------------------------
(* model.optimize(callback), line 342: the engine's search, as far as the *)
(* callback and the pool see it.                                          *)

Tick(t) == t \in now..(now + MaxStep) /\ t <= MaxTime

Event(where, value, fault, t, r) ==
    [where |-> where, value |-> value, fault |-> fault, time |-> t,
     logged |-> r.logged]

(* The engine starts the next priority level and calls back with          *)
(* where = MULTIOBJ; MULTIOBJ_OBJCNT is the number of levels done.        *)
LevelStart ==
    /\ pc = "optimize"
    /\ objcnt < NLevels
    /\ \E t \in 0..MaxTime, fault \in BOOLEAN :
         /\ Tick(t)
         /\ LET r == Call(cb, "MULTIOBJ", t, fault, objcnt)
            IN  /\ now' = t
                /\ cb' = r.self
                /\ ev' = Event("MULTIOBJ", objcnt, fault, t, r)
                /\ signals' = signals \o r.stop
                /\ sigCount' = 0
                /\ IF r.escaped
                   THEN pc' = "raised" /\ err' = "callback"
                   ELSE pc' = "search" /\ err' = err
    /\ UNCHANGED <<mip, xt>>
    /\ UNCHANGED <<cfg, nVars, nConstrs, cellIdx, objcnt, levelEnd, achieved,
                   pool, out>>

(* A periodic progress report: where = MIP, MIP_OBJBST = value.           *)
Report ==
    /\ pc = "search"
    /\ \E t \in 0..MaxTime, fault \in BOOLEAN,
          value \in ReportValues \cup {GRB_INFINITY} :
         /\ Tick(t)
         /\ LET r == Call(cb, "MIP", t, fault, value)
            IN  /\ now' = t
                /\ cb' = r.self
                /\ ev' = Event("MIP", value, fault, t, r)
                /\ signals' = IF r.stop = <<>> THEN signals
                               ELSE Append(signals,
                                      [kind |-> r.stop[1].kind,
                                       objcnt |-> r.stop[1].objcnt,
                                       during |-> objcnt])
                /\ sigCount' = sigCount + Len(r.stop)
                /\ IF r.escaped
                   THEN pc' = "raised" /\ err' = "callback"
                   ELSE pc' = pc /\ err' = err
    /\ UNCHANGED <<mip, xt>>
    /\ UNCHANGED <<cfg, nVars, nConstrs, cellIdx, objcnt, levelEnd, achieved,
                   pool, out>>

(* A callback with any other where code (PRESOLVE, MIPNODE, MESSAGE...).  *)
OtherCallback ==
    /\ pc = "search"
    /\ \E t \in 0..MaxTime :
         /\ Tick(t)
         /\ t > now
         /\ LET r == Call(cb, "OTHER", t, FALSE, 0)
            IN  /\ now' = t
                /\ cb' = r.self
                /\ ev' = Event("OTHER", 0, FALSE, t, r)
    /\ UNCHANGED <<mip, xt>>
    /\ UNCHANGED <<pc, cfg, nVars, nConstrs, cellIdx, objcnt, levelEnd,
                   achieved, pool, signals, sigCount, err, out>>

(* Objective values of a pooled solution: n_clonal (objective index 0,    *)
(* maximised) and the error of objective index 1 (minimised).             *)
Points == [n_clonal : 0..MaxObj, error : 0..MaxObj]

Better(i, p, q) == IF i = 0 THEN p.n_clonal > q.n_clonal ELSE p.error < q.error

Keeps(i, p) ==
    IF achieved[i] = NoValue THEN TRUE
    ELSE IF i = 0 THEN p.n_clonal >= achieved[i] ELSE p.error <= achieved[i]

ValueOf(i, p) == IF i = 0 THEN p.n_clonal ELSE p.error

Truncate(s, n) == IF Len(s) <= n THEN s ELSE SubSeq(s, 1, n)

(* The engine finds a new incumbent for the level it is searching: better *)
(* in that level's objective and not worse than the value achieved by any *)
(* level already finished.  The pool keeps the best sol_count solutions.  *)
FindSolution ==
    /\ pc = "search"
    /\ Feasible(cfg)
    /\ \E p \in Points :
         /\ IF pool = <<>> THEN TRUE ELSE Better(Searching, p, pool[1])
         /\ \A i \in ObjIndices : levelEnd[i] # "none" => Keeps(i, p)
         /\ pool' = Truncate(<<p>> \o pool, cfg.sol_count)
    /\ UNCHANGED <<mip, xt>>
    /\ UNCHANGED <<pc, cfg, nVars, nConstrs, cellIdx, cb, now, objcnt,
                   levelEnd, achieved, ev, signals, sigCount, err, out>>

EndLevel(how) ==
    /\ levelEnd' = [levelEnd EXCEPT ![Searching] = how]
    /\ achieved' = [achieved EXCEPT ![Searching] =
                       IF pool = <<>> THEN NoValue ELSE ValueOf(Searching, pool[1])]
    /\ objcnt' = objcnt + 1
    /\ pc' = IF objcnt + 1 < NLevels THEN "optimize" ELSE "extract"

(* The level's search ends with its incumbent proved optimal.             *)
LevelOptimal ==
    /\ pc = "search"
    /\ pool # <<>>
    /\ EndLevel("optimal")
    /\ UNCHANGED <<mip, xt>>
    /\ UNCHANGED <<cfg, nVars, nConstrs, cellIdx, cb, now, pool, ev, signals,
                   sigCount, err, out>>

(* The engine honours cbStopOneMultiObj(objcnt) for the level it is in.   *)
LevelStopped ==
    /\ pc = "search"
    /\ \E i \in 1..Len(signals) :
         signals[i].kind = "StopOneMultiObj" /\ signals[i].objcnt = objcnt
    /\ EndLevel("stagnated")
    /\ UNCHANGED <<mip, xt>>
    /\ UNCHANGED <<cfg, nVars, nConstrs, cellIdx, cb, now, pool, ev, signals,
                   sigCount, err, out>>

(* The system has no assignment: the engine ends the whole solve.         *)
Infeasible ==
    /\ pc = "search"
    /\ ~Feasible(cfg)
    /\ levelEnd' = [levelEnd EXCEPT ![Searching] = "infeasible"]
    /\ pc' = "extract"
    /\ UNCHANGED <<mip, xt>>
    /\ UNCHANGED <<cfg, nVars, nConstrs, cellIdx, cb, now, objcnt, achieved,
                   pool, ev, signals, sigCount, err, out>>

-----------------------------------------------------------------------------
(* Lines 344-427: the extraction loops run range(model.SolCount) times    *)
(* and the concatenated table is returned, whatever SolCount is.          *)
SolCount == Len(pool)

Extract ==
    /\ pc = "extract"
    /\ out' = [made |-> TRUE, columns |-> SolCount]
    /\ pc' = "returned"
    /\ UNCHANGED <<mip, xt>>
    /\ UNCHANGED <<cfg, nVars, nConstrs, cellIdx, cb, now, objcnt, levelEnd,
                   achieved, pool, ev, signals, sigCount, err>>

Next ==
    \/ IndexInput
    \/ DeclareVars
    \/ BuildCell
    \/ FinishBuild
    \/ LevelStart
    \/ Report
    \/ OtherCallback
    \/ FindSolution
    \/ LevelOptimal
    \/ LevelStopped
    \/ Infeasible
    \/ Extract

Spec == Init /\ [][Next]_vars

-----------------------------------------------------------------------------
(* Properties of the run (specification Spec)                              *)

(* A report improves on the stored best when it carries a value and that   *)
(* value is better, in the sense of the model (ModelSense = MAXIMIZE), by  *)
(* more than EPS; any value improves on "unbounded".                       *)
Improves(cur, best) ==
    cur < GRB_INFINITY /\ (best = FloatInf \/ cur > best + EPS)

ReportStep == pc = "search" /\ ev' # ev /\ ev'.where = "MIP" /\ ~ev'.fault

(* C1: in every level at most one stop signal is issued; no signal is      *)
(* issued while the time since the last improvement is within the timeout; *)
(* and every report that carries a value, does not improve on the stored   *)
(* best and comes more than the timeout after the last improvement leaves  *)
(* the level with exactly one stop signal issued.                          *)
C1_OneStopPerStagnantLevel ==
    [][ /\ sigCount' <= 1
        /\ signals' # signals => now' - cb.last_improve_time > cb.max_stagnation
        /\ ( /\ ReportStep
             /\ ev'.value < GRB_INFINITY
             /\ ~Improves(ev'.value, cb.best_obj)
             /\ now' - cb.last_improve_time > cb.max_stagnation )
           => sigCount' = 1 ]_vars

SignalsLevelScoped ==
    \A i \in 1..Len(signals) :
        signals[i].kind = "StopOneMultiObj" /\ signals[i].objcnt = signals[i].during

(* C2: every stop instruction issued is a stop of one level, never of the  *)
(* whole run, and its level is the one recorded at the latest transition,  *)
(* which is the level being searched when it is issued.                    *)
C2_StopIsLevelScoped ==
    /\ SignalsLevelScoped
    /\ pc = "search" => cb.obj_count = objcnt

C2_Witness ==
    /\ pc = "returned"
    /\ Len(signals) = 2
    /\ signals[1].objcnt = 0
    /\ signals[2].objcnt = 1
    /\ levelEnd[LevelOrder[1]] = "stagnated"
    /\ levelEnd[LevelOrder[2]] = "stagnated"

(* C3: a failure raised inside an invocation of the callback is caught and *)
(* logged in that invocation: it does not surface from the search, the     *)
(* search goes on, and the controller is as it was.                        *)
C3_FailureContained ==
    [][ (ev' # ev /\ ev'.fault)
        => (ev'.logged /\ err' = "none" /\ pc' = "search" /\ cb' = cb) ]_vars

LevelBStarted ==
    \/ levelEnd[1] # "none"
    \/ (pc = "search" /\ Searching = 1)

NoRegression ==
    (pc = "returned" /\ pool # <<>> /\ achieved[0] # NoValue)
        => pool[1].n_clonal >= achieved[0]

C8_InfeasibleIsDistinct ==
    /\ out.made => SolCount >= 1
    /\ (~Feasible(cfg) /\ pc \in {"returned", "raised"})
          => (err = "infeasible" /\ ~out.made)

(* C9: on a configuration error or an input-shape error no variable and no *)
(* constraint is ever declared and the solve is never started.             *)
C9_RejectedBeforeBuild ==
    (ConfigError(cfg) \/ ShapeError(cfg))
        => /\ nVars = 0
           /\ nConstrs = 0
           /\ pc \in {"start", "declare", "raised"}

(* C12: a periodic report that carries a value updates the stored best and *)
(* the last-improvement time only if the value improves on the stored best *)
(* by more than EPS; a report equal to, within EPS of, or worse than the   *)
(* stored best leaves both unchanged.                                      *)
C12_UpdateOnlyOnImprovement ==
    [][ (ReportStep /\ ~Improves(ev'.value, cb.best_obj))
          => /\ cb'.best_obj = cb.best_obj
             /\ cb'.last_improve_time = cb.last_improve_time ]_vars

(* C13: a level transition whose level number is read leaves the           *)
(* controller with best value unbounded, last-improvement time the time of *)
(* the transition, stagnated false and the level identifier the reported   *)
(* level, whatever it was before; the transition issues no stop signal;    *)
(* and a periodic report never changes the level identifier.               *)
C13_TransitionResets ==
    [][ /\ (LevelStart /\ ~ev'.fault)
              => /\ cb'.best_obj = FloatInf
                 /\ cb'.last_improve_time = ev'.time
                 /\ cb'.stagnated = FALSE
                 /\ cb'.obj_count = ev'.value
        /\ LevelStart => signals' = signals
        /\ Report => cb'.obj_count = cb.obj_count ]_vars

C13_Witness ==
    /\ pc = "search"
    /\ ev.where = "MULTIOBJ"
    /\ ~ev.fault
    /\ ev.value = 1
    /\ ev.time > 0
    /\ levelEnd[LevelOrder[1]] = "stagnated"
    /\ Len(signals) = 1
    /\ cb.obj_count = 1
    /\ cb.best_obj = FloatInf
    /\ cb.last_improve_time = ev.time
    /\ ~cb.stagnated

-----------------------------------------------------------------------------
(* The constraint system declared by lines 117-333, and the assignments it *)
(* accepts.  Copy numbers, deviations, error terms and thresholds are      *)
(* integers in units of 1/K; BAF is held doubled, z = 1/purity is held     *)
(* doubled (z2), 2^logR is held times four.                                *)

MaxCN == 9

n_Samples == Cardinality(AllSamples)
n_Segments == Cardinality(AllSegments)
K == 8 * n_Samples
Half == K \div 2

NaN2 == 99
MissingBAF2 == 0 - 18

(* The measurement table: logR, 2*BAF (NaN2: not measured), GC, mb        *)
Dat(t, s) ==
    IF s = "s1"
    THEN IF t = "t1"
         THEN [logR |-> 0 - 2, BAF2 |-> NaN2, GC |-> 2, mb |-> 5]
         ELSE [logR |-> 0, BAF2 |-> 1, GC |-> 2, mb |-> 5]
    ELSE [logR |-> 1, BAF2 |-> 1, GC |-> 2, mb |-> 10]

(* dat.loc[np.isnan(dat['BAF']),'BAF'] = -9 *)
Recoded(t, s) ==
    [Dat(t, s) EXCEPT !.BAF2 = IF @ = NaN2 THEN MissingBAF2 ELSE @]

ParamSets ==
    { [min_ploidy |-> 2, max_ploidy |-> 3, min_purity |-> 60, max_purity |-> 100,
       min_aligned_seg_mb |-> 6, max_homdel_mb |-> 4,
       delta_tcn_to_int |-> K \div 4, delta_tcn_to_avg |-> Half,
       delta_tcnavg_to_int |-> K \div 4,
       delta_mcn_to_int |-> K \div 4, delta_mcn_to_avg |-> Half,
       delta_mcnavg_to_int |-> K \div 4,
       rho_num |-> rn, rho_den |-> 2,
       min_cna_segments_per_sample |-> 1, obj2_clonalonly |-> co]
        : rn \in {1, 2}, co \in BOOLEAN }

MipCells == CellOrder([rows |-> FullTable])

FirstSample == MipCells[1][1]
LastSample == MipCells[Len(MipCells)][1]

RECURSIVE SumF(_, _)
SumF(f, S) ==
    IF S = {} THEN 0
    ELSE LET x == CHOOSE y \in S : TRUE IN f[x] + SumF(f, S \ {x})

(* c = 2**r, held times four *)
Pow2x4(r) == IF r = 0 - 2 THEN 1 ELSE IF r = 0 - 1 THEN 2 ELSE IF r = 0 THEN 4 ELSE 8

(* Lines 196-207: n1 and mcn of a cell as functions of pl and z, times 8  *)
N1x8(d, pl, z2) ==
    LET b2 == d.BAF2
        c4 == Pow2x4(d.logR)
        g == d.GC
    IN  IF b2 # MissingBAF2
        THEN 0 - b2 * c4 * pl + 2 * b2 * c4 - b2 * c4 * z2 + 2 * c4 * pl
               - 4 * c4 + 2 * c4 * z2 + 8 * g - 4 * g * z2 - 8 + 4 * z2
        ELSE 2 * z2 * c4 + 2 * c4 * pl - 4 * c4 - 4 * g * z2 + 8 * g

Mcnx8(d, pl, z2) ==
    LET b2 == d.BAF2
        c4 == Pow2x4(d.logR)
    IN  IF b2 # MissingBAF2
        THEN b2 * c4 * pl - 2 * b2 * c4 + b2 * c4 * z2 + 8 - 4 * z2
        ELSE 0

tcn_wt_copies(d) == d.GC
mcn_wt_copies(d) == IF d.BAF2 # MissingBAF2 THEN d.GC - 1 ELSE 0

N1K(t, s, pl, z2) == n_Samples * N1x8(Recoded(t, s), pl[t], z2[t])
McnK(t, s, pl, z2) == n_Samples * Mcnx8(Recoded(t, s), pl[t], z2[t])
(* tcn[t,s] == n1[t,s] + mcn[t,s] *)
TcnK(t, s, pl, z2) == N1K(t, s, pl, z2) + McnK(t, s, pl, z2)

(* tcn_avg[t,s] == quicksum(tcn[t,s] for t in Samples)/n_Samples *)
TcnAvgK(s, pl, z2) ==
    SumF([t \in AllSamples |-> TcnK(t, s, pl, z2)], AllSamples) \div n_Samples
McnAvgK(s, pl, z2) ==
    SumF([t \in AllSamples |-> McnK(t, s, pl, z2)], AllSamples) \div n_Samples

(* pl[t] in [min_ploidy, max_ploidy]; z[t] in [1/max_purity, 1/min_purity] *)
PlGrid(par) == par.min_ploidy .. par.max_ploidy
Z2Grid(par) == { z2 \in 1..8 : z2 * par.max_purity >= 200 /\ z2 * par.min_purity <= 200 }

(* addGenConstrIndicator(b, 1, condition): b = 1 only if the condition    *)
(* holds; b = 0 is always admitted.                                       *)
IndFlags(cond) == IF cond THEN {0, 1} ELSE {0}

(* addGenConstrAnd / addGenConstrOr: the result is the AND / OR exactly   *)
And2(a, b) == IF a = 1 /\ b = 1 THEN 1 ELSE 0
Or2(a, b) == IF a = 1 \/ b = 1 THEN 1 ELSE 0

Abs(x) == IF x >= 0 THEN x ELSE 0 - x

(* x_int <= x + 0.5, x_int >= x - 0.5, x_int integer with lb 0            *)
IntChoices(v) == { i \in 0..MaxCN : K * i <= v + Half /\ K * i >= v - Half }

(* x_int_err >= x_int - x, x_int_err >= -x_int + x: any value above the   *)
(* deviation satisfies them; the deviation and one copy more are taken    *)
Slacks == {0, K}
ErrChoices(v, i) == { Abs(K * i - v) + k : k \in Slacks }

close_to_int_flags(e, delta) == IndFlags(e <= delta)

(* x_spread >= +-(x_avg - x); close_to_avg = 1 only if x_spread <= delta  *)
close_to_avg_flags(v, a, delta) ==
    { f \in {0, 1} : \E sp \in { Abs(a - v) + k : k \in Slacks } :
                        sp >= Abs(a - v) /\ (f = 1 => sp <= delta) }

(* x_avg_int within 0.5 of x_avg, x_avg_int_err above the deviation,      *)
(* avg_close_to_int = 1 only if x_avg_int_err <= delta                    *)
avg_close_to_int_flags(a, delta) ==
    { f \in {0, 1} : \E i \in IntChoices(a) : \E e \in ErrChoices(a, i) :
                        f = 1 => e <= delta }

(* x_match = AND(close_to_int, close_to_avg);                             *)
(* x_match_and_avg_at_int = AND(x_match, avg_close_to_int)                *)
match_and_avg_at_int_flags(e, v, a, dInt, dAvg, dAvgInt) ==
    { And2(And2(ci, ca), cai) :
        ci \in close_to_int_flags(e, dInt),
        ca \in close_to_avg_flags(v, a, dAvg),
        cai \in avg_close_to_int_flags(a, dAvgInt) }

(* (gain == 1) >> (x_int >= wt + 1); (loss == 1) >> (x_int <= wt - 1)     *)
gain_flags_at_wild_type(xint, wt) == IndFlags(xint >= wt)
gain_flags(xint, wt) == IndFlags(xint >= wt + 1)
loss_flags(xint, wt) == IndFlags(xint <= wt - 1)
cna_flags(xint, wt) ==
    { Or2(g, l) : g \in gain_flags(xint, wt), l \in loss_flags(xint, wt) }

(* is_cna = OR(tcn_cna, mcn_cna) *)
is_cna_flags(tcn_int, mcn_int, d) ==
    { Or2(a, b) : a \in cna_flags(tcn_int, tcn_wt_copies(d)),
                  b \in cna_flags(mcn_int, mcn_wt_copies(d)) }

(* match_both = AND(tcn_match_and_avg_at_int, mcn_match_and_avg_at_int)   *)
match_both_flags(tm, mm) == { And2(a, b) : a \in tm, b \in mm }

large_enough_flags(d, par) == IndFlags(d.mb >= par.min_aligned_seg_mb)

is_homdel_flags(tcnK) == IndFlags(tcnK <= Half)

(* match_both_and_large_enough = AND(match_both, large_enough);           *)
(* match_both_and_large_enough_and_cna = AND(that, is_cna)                *)
match_both_and_large_enough_and_cna_flags(mb, le, is_cna) ==
    { And2(And2(a, b), is_cna) : a \in mb, b \in le }

(* allmatch[s] = 1 only if sum_t match_both_and_large_enough_and_cna[t,s] *)
(* >= rho * n_Samples                                                     *)
c_allmatch(allmatch, count, par) ==
    allmatch = 1 => count * par.rho_den >= par.rho_num * n_Samples

(* Lines 324-331: the masked error term of a cell                         *)
term_le_err(term, e) == term <= e
term_le_one(term, allmatch) == term <= K
term_le_mask(term, allmatch) == term <= allmatch * K
term_ge_err_minus(term, e, allmatch) == term >= e - (K - allmatch * K)
term_ge_zero(term) == term >= 0

TermChoices(e, allmatch, par) ==
    IF par.obj2_clonalonly
    THEN { x \in 0..(2 * K) :
              /\ term_le_err(x, e)
              /\ term_le_mask(x, allmatch)
              /\ term_ge_err_minus(x, e, allmatch)
              /\ term_ge_zero(x) }
    ELSE {NoValue}

MipStart(par) ==
    [stage |-> "start", par |-> par,
     pl |-> [t \in AllSamples |-> 0], z2 |-> [t \in AllSamples |-> 0],
     tcn |-> [c \in FullTable |-> 0], mcn |-> [c \in FullTable |-> 0],
     tcn_avg |-> [s \in AllSegments |-> 0], mcn_avg |-> [s \in AllSegments |-> 0],
     idx |-> 1,
     allmatch |-> [s \in AllSegments |-> 0],
     count |-> [s \in AllSegments |-> 0],
     homdel_mb |-> [t \in AllSamples |-> 0],
     n_cna_segments_per_sample |-> [t \in AllSamples |-> 0],
     cna_cells |-> [t \in AllSamples |-> 0],
     tcn_err_sum |-> 0, mcn_err_sum |-> 0,
     tcn_term_sum |-> 0, mcn_term_sum |-> 0,
     n_clonal |-> 0, tcn_error_clonal |-> 0, mcn_error_clonal |-> 0,
     cur |-> [t |-> "none", s |-> "none", tcn |-> 0, mcn |-> 0, tcn_int |-> 0,
              tcn_int_err |-> 0, mcn_int |-> 0, mcn_int_err |-> 0, is_cna |-> 0,
              is_homdel |-> 0, match_both_and_large_enough_and_cna |-> 0,
              tcn_int_err_term |-> 0, mcn_int_err_term |-> 0]]

InitMIP ==
    /\ cfg \in { c \in Inputs : Feasible(c) /\ ~ShapeError(c) /\ c.timeout = 1 }
    /\ RunStart
    /\ mip \in { MipStart(par) : par \in ParamSets }
    /\ xt = [stage |-> "unsolved"]

(* The engine fixes pl[t] and z[t] within their bounds; n1, mcn and tcn   *)
(* follow from lines 198-209 and, like every variable declared without a  *)
(* lower bound, must be >= 0.                                             *)
ChoosePloidyPurity ==
    /\ mip.stage = "start"
    /\ \E pl \in [AllSamples -> PlGrid(mip.par)], z2 \in [AllSamples -> Z2Grid(mip.par)] :
         /\ \A t \in AllSamples, s \in AllSegments :
               N1K(t, s, pl, z2) >= 0 /\ McnK(t, s, pl, z2) >= 0
         /\ mip' = [mip EXCEPT
               !.stage = "cells", !.pl = pl, !.z2 = z2,
               !.tcn = [c \in FullTable |-> TcnK(c[1], c[2], pl, z2)],
               !.mcn = [c \in FullTable |-> McnK(c[1], c[2], pl, z2)],
               !.tcn_avg = [s \in AllSegments |-> TcnAvgK(s, pl, z2)],
               !.mcn_avg = [s \in AllSegments |-> McnAvgK(s, pl, z2)]]
    /\ UNCHANGED <<runVars, xt>>

(* A cell carries a CNA: its rounded TCN or MCN is at least one copy away *)
(* from its wild type.                                                    *)
CarriesCNA(tcn_int, mcn_int, d) ==
    \/ tcn_int >= tcn_wt_copies(d) + 1
    \/ tcn_int <= tcn_wt_copies(d) - 1
    \/ mcn_int >= mcn_wt_copies(d) + 1
    \/ mcn_int <= mcn_wt_copies(d) - 1

(* The engine assigns the variables of the next cell of the double loop   *)
(* (lines 183-295, 320-331) so that the cell's constraints hold; allmatch *)
(* of the segment is fixed with its first cell and its indicator (line    *)
(* 298) is met once the segment's last cell is assigned.                  *)
AssignCell ==
    /\ mip.stage = "cells"
    /\ mip.idx <= Len(MipCells)
    /\ LET t == MipCells[mip.idx][1]
           s == MipCells[mip.idx][2]
           d == Recoded(t, s)
           par == mip.par
           tK == mip.tcn[<<t, s>>]
           mK == mip.mcn[<<t, s>>]
           taK == mip.tcn_avg[s]
           maK == mip.mcn_avg[s]
       IN  \E am \in (IF t = FirstSample THEN {0, 1} ELSE {mip.allmatch[s]}) :
           \E ti \in IntChoices(tK) : \E te \in ErrChoices(tK, ti) :
           \E mi \in IntChoices(mK) : \E me \in ErrChoices(mK, mi) :
           \E cna \in is_cna_flags(ti, mi, d) :
           \E mbl \in match_both_and_large_enough_and_cna_flags(
                         match_both_flags(
                            match_and_avg_at_int_flags(te, tK, taK, par.delta_tcn_to_int,
                                par.delta_tcn_to_avg, par.delta_tcnavg_to_int),
                            match_and_avg_at_int_flags(me, mK, maK, par.delta_mcn_to_int,
                                par.delta_mcn_to_avg, par.delta_mcnavg_to_int)),
                         large_enough_flags(d, par), cna) :
           \E hd \in is_homdel_flags(tK) :
           \E tt \in TermChoices(te, am, par) : \E mt \in TermChoices(me, am, par) :
              /\ t = LastSample => c_allmatch(am, mip.count[s] + mbl, par)
              /\ mip' = [mip EXCEPT
                    !.idx = @ + 1,
                    !.allmatch[s] = am,
                    !.count[s] = @ + mbl,
                    !.homdel_mb[t] = @ + d.mb * hd,
                    !.n_cna_segments_per_sample[t] = @ + cna,
                    !.cna_cells[t] = @ + (IF CarriesCNA(ti, mi, d) THEN 1 ELSE 0),
                    !.tcn_err_sum = @ + te,
                    !.mcn_err_sum = @ + me,
                    !.tcn_term_sum = @ + (IF par.obj2_clonalonly THEN tt ELSE 0),
                    !.mcn_term_sum = @ + (IF par.obj2_clonalonly THEN mt ELSE 0),
                    !.cur = [t |-> t, s |-> s, tcn |-> tK, mcn |-> mK,
                             tcn_int |-> ti, tcn_int_err |-> te,
                             mcn_int |-> mi, mcn_int_err |-> me,
                             is_cna |-> cna, is_homdel |-> hd,
                             match_both_and_large_enough_and_cna |-> mbl,
                             tcn_int_err_term |-> tt, mcn_int_err_term |-> mt]]
    /\ UNCHANGED <<runVars, xt>>

(* Lines 169-170, 301-303, 311-333: the per-sample sums within their      *)
(* bounds, n_clonal and the two error totals; the assignment is accepted. *)
Accept ==
    /\ mip.stage = "cells"
    /\ mip.idx > Len(MipCells)
    /\ \A t \in AllSamples :
          /\ mip.homdel_mb[t] >= 0
          /\ mip.homdel_mb[t] <= mip.par.max_homdel_mb
          /\ mip.n_cna_segments_per_sample[t] >= mip.par.min_cna_segments_per_sample
          /\ mip.n_cna_segments_per_sample[t] <= n_Segments
    /\ mip' = [mip EXCEPT
          !.stage = "feasible",
          !.n_clonal = SumF(mip.allmatch, AllSegments),
          !.tcn_error_clonal =
              IF mip.par.obj2_clonalonly THEN mip.tcn_term_sum ELSE mip.tcn_err_sum,
          !.mcn_error_clonal =
              IF mip.par.obj2_clonalonly THEN mip.mcn_term_sum ELSE mip.mcn_err_sum]
    /\ UNCHANGED <<runVars, xt>>

NextMIP ==
    \/ ChoosePloidyPurity
    \/ AssignCell
    \/ Accept

SpecMIP == InitMIP /\ [][NextMIP]_vars

-----------------------------------------------------------------------------
(* Properties of the accepted assignments                                  *)

Assigned == mip.stage \in {"cells", "feasible"} /\ mip.idx > 1
Accepted == mip.stage = "feasible"

ReachesRho(s) == mip.count[s] * mip.par.rho_den >= mip.par.rho_num * n_Samples

(* C4: in every accepted assignment, for every segment s, allmatch[s] is   *)
(* true if and only if the number of samples whose cell at s has           *)
(* match_both_and_large_enough_and_cna is at least rho * n_Samples.        *)
C4_AllmatchIffCount ==
    Accepted => \A s \in AllSegments : mip.allmatch[s] = 1 <=> ReachesRho(s)

(* Megabases of the segments of sample t whose TCN is at most 0.5          *)
HomdelMb(t) ==
    SumF([s \in AllSegments |->
            IF mip.tcn[<<t, s>>] <= Half THEN Recoded(t, s).mb ELSE 0], AllSegments)

(* C5: in every accepted assignment, for every sample the total length of  *)
(* the segments whose cell has TCN <= 0.5 is at most max_homdel_mb.        *)
C5_HomdelCapHolds ==
    Accepted => \A t \in AllSamples : HomdelMb(t) <= mip.par.max_homdel_mb

(* C6: a cell whose is_cna flag is 1 has a rounded TCN or MCN at least one *)
(* copy away from its wild type, and in every accepted assignment every    *)
(* sample has at least min_cna_segments_per_sample such cells.             *)
C6_RealCNASegments ==
    /\ (Assigned /\ mip.cur.is_cna = 1)
          => CarriesCNA(mip.cur.tcn_int, mip.cur.mcn_int, Recoded(mip.cur.t, mip.cur.s))
    /\ Accepted => \A t \in AllSamples :
                      mip.cna_cells[t] >= mip.par.min_cna_segments_per_sample

C6_Witness ==
    /\ Accepted
    /\ mip.cur.is_cna = 1
    /\ mip.cna_cells[mip.cur.t] = mip.par.min_cna_segments_per_sample
    /\ \E t \in AllSamples :
          mip.cna_cells[t] > mip.n_cna_segments_per_sample[t]

(* C10: with obj2_clonalonly, the masked error term of a cell equals the   *)
(* cell's integer-deviation error when allmatch of its segment is 1 and 0  *)
(* when it is 0, for TCN and MCN, and in an accepted assignment            *)
(* tcn_error_clonal and mcn_error_clonal are at most the sums of the       *)
(* errors over every cell.                                                 *)
C10_MaskedTerm ==
    (Assigned /\ mip.par.obj2_clonalonly)
       => /\ mip.cur.tcn_int_err_term =
                 (IF mip.allmatch[mip.cur.s] = 1 THEN mip.cur.tcn_int_err ELSE 0)
          /\ mip.cur.mcn_int_err_term =
                 (IF mip.allmatch[mip.cur.s] = 1 THEN mip.cur.mcn_int_err ELSE 0)
          /\ Accepted => /\ mip.tcn_error_clonal <= mip.tcn_err_sum
                          /\ mip.mcn_error_clonal <= mip.mcn_err_sum

C10_Witness ==
    /\ Accepted
    /\ mip.par.obj2_clonalonly
    /\ mip.allmatch[mip.cur.s] = 1
    /\ mip.cur.tcn_int_err > 0
    /\ mip.cur.tcn_int_err_term = mip.cur.tcn_int_err
    /\ \E s \in AllSegments : mip.allmatch[s] = 0
    /\ mip.mcn_error_clonal < mip.mcn_err_sum

-----------------------------------------------------------------------------
(* Lines 344-427: the pooled solutions read into the returned table.       *)
(* A value is a rational [num, den]; the table holds the values rounded to *)
(* 6 decimals, as integers in units of 1e-6.  mcn_weight is held in        *)
(* quarters.                                                               *)

MaxPool == 2

Micro == 1000000

Q(n, d) == [num |-> n, den |-> d]

(* .round(6) *)
Round6(q) ==
    IF q.num >= 0
    THEN (2 * q.num * Micro + q.den) \div (2 * q.den)
    ELSE 0 - ((2 * (0 - q.num) * Micro + q.den) \div (2 * q.den))

(* 1/v.Xn *)
Reciprocal(q) == Q(q.den, q.num)

(* -(1 - mcn_weight) * tcn_error_clonal.Xn - mcn_weight * mcn_error_clonal.Xn *)
Obj2Value(te, me, w4) ==
    Q(0 - ((4 - w4) * te.num + w4 * me.num), 4 * te.den)

ConcatSeqs(ss) ==
    LET RECURSIVE Cat(_)
        Cat(k) == IF k = 0 THEN <<>> ELSE Cat(k - 1) \o ss[k]
    IN  Cat(Len(ss))

SampleSeq == SetToSeq(AllSamples)
SegmentSeq == SetToSeq(AllSegments)

Var(group, key) == [group |-> group, key |-> key]

(* addVars(Samples, Segments, name=g): one variable per pair, sample-major *)
CellVars(g) ==
    [k \in 1..(n_Samples * n_Segments) |->
        Var(g, <<SampleSeq[((k - 1) \div n_Segments) + 1],
                 SegmentSeq[((k - 1) % n_Segments) + 1]>>)]
SampleVars(g) == [k \in 1..n_Samples |-> Var(g, <<SampleSeq[k]>>)]
SegmentVars(g) == [k \in 1..n_Segments |-> Var(g, <<SegmentSeq[k]>>)]

(* model.getVars(): the variables in the order of their declaration; the  *)
(* groups whose names share a prefix with an extracted group, the         *)
(* extracted groups and the objective variables.                          *)
GetVars ==
    ConcatSeqs(<< CellVars("n1"), CellVars("tcn"), CellVars("tcn_avg"),
                  <<Var("tcn_error_clonal", <<>>)>>,
                  CellVars("mcn"), CellVars("mcn_avg"),
                  <<Var("mcn_error_clonal", <<>>)>>,
                  SegmentVars("allmatch"), SampleVars("pl"), SampleVars("z"),
                  <<Var("avg_ploidy", <<>>)>>, <<Var("n_clonal", <<>>)>> >>)

(* v.VarName.startswith(g + "[") *)
StartsWith(v, g) == v.group = g /\ v.key # <<>>
VarsStartingWith(g) == SelectSeq(GetVars, LAMBDA v : StartsWith(v, g))

(* model.getVarByName(g) *)
GetVarByName(g) == Var(g, <<>>)

(* A pooled solution: pl, z (doubled), allmatch and the slack of the       *)
(* error sum above the least deviations; the other values follow.          *)
Solution(p1, p2, z1, z2, a1, a2, slack) ==
    [pl |-> [t \in AllSamples |-> IF t = "t1" THEN p1 ELSE p2],
     z2 |-> [t \in AllSamples |-> IF t = "t1" THEN z1 ELSE z2],
     allmatch |-> [sg \in AllSegments |-> IF sg = "s1" THEN a1 ELSE a2],
     slack |-> slack]

PoolSolutions ==
    { Solution(2, 2, 2, 2, 0, 1, 0), Solution(2, 3, 2, 3, 0, 0, 0),
      Solution(3, 2, 3, 2, 0, 0, K), Solution(2, 2, 2, 2, 0, 0, K) }

MinDev(v) ==
    LET D == { Abs(K * i - v) : i \in IntChoices(v) }
    IN  CHOOSE e \in D : \A e2 \in D : e <= e2

TcnErrK(sol) ==
    SumF([c \in FullTable |-> MinDev(TcnK(c[1], c[2], sol.pl, sol.z2))], FullTable)
        + sol.slack
McnErrK(sol) ==
    SumF([c \in FullTable |-> MinDev(McnK(c[1], c[2], sol.pl, sol.z2))], FullTable)
        + sol.slack

(* The value of variable v in a pooled solution *)
ValueIn(sol, v) ==
    CASE v.group = "n1" -> Q(N1K(v.key[1], v.key[2], sol.pl, sol.z2), K)
      [] v.group = "tcn" -> Q(TcnK(v.key[1], v.key[2], sol.pl, sol.z2), K)
      [] v.group = "tcn_avg" -> Q(TcnAvgK(v.key[2], sol.pl, sol.z2), K)
      [] v.group = "tcn_error_clonal" -> Q(TcnErrK(sol), K)
      [] v.group = "mcn" -> Q(McnK(v.key[1], v.key[2], sol.pl, sol.z2), K)
      [] v.group = "mcn_avg" -> Q(McnAvgK(v.key[2], sol.pl, sol.z2), K)
      [] v.group = "mcn_error_clonal" -> Q(McnErrK(sol), K)
      [] v.group = "allmatch" -> Q(sol.allmatch[v.key[1]], 1)
      [] v.group = "pl" -> Q(sol.pl[v.key[1]], 1)
      [] v.group = "z" -> Q(sol.z2[v.key[1]], 2)
      [] v.group = "avg_ploidy" -> Q(SumF(sol.pl, AllSamples), n_Samples)
      [] v.group = "n_clonal" -> Q(SumF(sol.allmatch, AllSegments), 1)

(* model.params.SolutionNumber left as it was *)
SolutionNumberKept(current, i) == current

(* model.params.SolutionNumber = i *)
SetSolutionNumber(current, i) == i

(* v.Xn: the value of v in the solution SolutionNumber selects *)
Xn(v, solutions, SolutionNumber) == ValueIn(solutions[SolutionNumber + 1], v)

RECURSIVE Arrangements(_, _)
Arrangements(S, n) ==
    IF n = 0 THEN { <<>> }
    ELSE { <<x>> \o r : x \in S, r \in Arrangements(S, n - 1) }

(* The pools the engine can hand over: at most PoolSolutions (sol_count)  *)
(* solutions, no solution twice.                                          *)
Pools(sol_count) ==
    { p \in UNION { Arrangements(PoolSolutions, n) : n \in 0..sol_count } :
        \A j, k \in 1..Len(p) : j # k => p[j] # p[k] }

Weights4 == {0, 1, 4}

XtStart(solutions, sol_count, w4) ==
    [stage |-> "obj", pool |-> solutions, sol_count |-> sol_count, mcn_weight4 |-> w4,
     SolutionNumber |-> 0, i |-> 0,
     obj1_vals |-> <<>>, obj2_vals |-> <<>>,
     pl_data |-> <<>>, pu_data |-> <<>>, allmatch_data |-> <<>>,
     tcn_data |-> <<>>, mcn_data |-> <<>>,
     out |-> [Variable |-> <<>>, columns |-> <<>>]]

InitExtract ==
    /\ cfg \in { c \in Inputs : Feasible(c) /\ ~ShapeError(c) /\ c.timeout = 1 }
    /\ RunStart
    /\ mip = [stage |-> "unsolved"]
    /\ \E sol_count \in 1..MaxPool, w4 \in Weights4 :
         \E p \in Pools(sol_count) : xt = XtStart(p, sol_count, w4)

(* model.SolCount *)
XtSolCount == Len(xt.pool)

(* [v.Xn for v in vs], read under the given SolutionNumber *)
ColumnOf(vs, n) == [k \in 1..Len(vs) |-> Xn(vs[k], xt.pool, n)]

(* Lines 356-363: one iteration of the objective loop; after the last     *)
(* one, lines 365-370 lay out obj_df.                                     *)
ExtractObjectives ==
    /\ xt.stage = "obj"
    /\ IF xt.i < XtSolCount
       THEN LET n == SetSolutionNumber(xt.SolutionNumber, xt.i)
            IN  xt' = [xt EXCEPT
                   !.SolutionNumber = n,
                   !.obj1_vals = Append(@, Xn(GetVarByName("n_clonal"), xt.pool, n)),
                   !.obj2_vals = Append(@,
                        Obj2Value(Xn(GetVarByName("tcn_error_clonal"), xt.pool, n),
                                  Xn(GetVarByName("mcn_error_clonal"), xt.pool, n),
                                  xt.mcn_weight4)),
                   !.i = @ + 1]
       ELSE xt' = [xt EXCEPT !.stage = "pl", !.i = 0]
    /\ UNCHANGED <<runVars, mip>>

(* Lines 374-381 *)
ExtractPloidy ==
    /\ xt.stage = "pl"
    /\ IF xt.i < XtSolCount
       THEN LET n == SetSolutionNumber(xt.SolutionNumber, xt.i)
            IN  xt' = [xt EXCEPT
                   !.SolutionNumber = n,
                   !.pl_data = Append(@, ColumnOf(VarsStartingWith("pl"), n)),
                   !.i = @ + 1]
       ELSE xt' = [xt EXCEPT !.stage = "pu", !.i = 0]
    /\ UNCHANGED <<runVars, mip>>

(* Lines 384-392 *)
ExtractPurity ==
    /\ xt.stage = "pu"
    /\ IF xt.i < XtSolCount
       THEN LET n == SetSolutionNumber(xt.SolutionNumber, xt.i)
                col == ColumnOf(VarsStartingWith("z"), n)
            IN  xt' = [xt EXCEPT
                   !.SolutionNumber = n,
                   !.pu_data = Append(@, [k \in 1..Len(col) |-> Reciprocal(col[k])]),
                   !.i = @ + 1]
       ELSE xt' = [xt EXCEPT !.stage = "allmatch", !.i = 0]
    /\ UNCHANGED <<runVars, mip>>

(* Lines 395-402 *)
ExtractAllmatch ==
    /\ xt.stage = "allmatch"
    /\ IF xt.i < XtSolCount
       THEN LET n == SetSolutionNumber(xt.SolutionNumber, xt.i)
            IN  xt' = [xt EXCEPT
                   !.SolutionNumber = n,
                   !.allmatch_data = Append(@, ColumnOf(VarsStartingWith("allmatch"), n)),
                   !.i = @ + 1]
       ELSE xt' = [xt EXCEPT !.stage = "tcn", !.i = 0]
    /\ UNCHANGED <<runVars, mip>>

(* Lines 405-412 *)
ExtractTcn ==
    /\ xt.stage = "tcn"
    /\ IF xt.i < XtSolCount
       THEN LET n == SetSolutionNumber(xt.SolutionNumber, xt.i)
            IN  xt' = [xt EXCEPT
                   !.SolutionNumber = n,
                   !.tcn_data = Append(@, ColumnOf(VarsStartingWith("tcn"), n)),
                   !.i = @ + 1]
       ELSE xt' = [xt EXCEPT !.stage = "mcn", !.i = 0]
    /\ UNCHANGED <<runVars, mip>>

(* Lines 415-422 *)
ExtractMcn ==
    /\ xt.stage = "mcn"
    /\ IF xt.i < XtSolCount
       THEN LET n == SetSolutionNumber(xt.SolutionNumber, xt.i)
            IN  xt' = [xt EXCEPT
                   !.SolutionNumber = n,
                   !.mcn_data = Append(@, ColumnOf(VarsStartingWith("mcn"), n)),
                   !.i = @ + 1]
       ELSE xt' = [xt EXCEPT !.stage = "concat", !.i = 0]
    /\ UNCHANGED <<runVars, mip>>

(* pu_df.Variable.replace('z\[', 'pu[') *)
RenamePurity(v) == [v EXCEPT !.group = "pu"]

(* Lines 425-427: pd.concat([obj_df, pl_df, pu_df, allmatch_df, tcn_df,   *)
(* mcn_df], axis=0), the value columns rounded to 6 decimals; the table   *)
(* has one value column per entry of the data dictionaries.               *)
Concat ==
    /\ xt.stage = "concat"
    /\ LET pu_names == [k \in 1..n_Samples |-> RenamePurity(VarsStartingWith("z")[k])]
           names == ConcatSeqs(<< <<Var("Obj1", <<>>), Var("Obj2", <<>>)>>,
                                  VarsStartingWith("pl"), pu_names,
                                  VarsStartingWith("allmatch"),
                                  VarsStartingWith("tcn"), VarsStartingWith("mcn") >>)
           column(c) == ConcatSeqs(<< <<xt.obj1_vals[c], xt.obj2_vals[c]>>,
                                      xt.pl_data[c], xt.pu_data[c], xt.allmatch_data[c],
                                      xt.tcn_data[c], xt.mcn_data[c] >>)
       IN  xt' = [xt EXCEPT
              !.stage = "returned",
              !.out = [Variable |-> names,
                       columns |-> [c \in 1..Len(xt.obj1_vals) |->
                                       [r \in 1..Len(names) |-> Round6(column(c)[r])]]]]
    /\ UNCHANGED <<runVars, mip>>

NextExtract ==
    \/ ExtractObjectives
    \/ ExtractPloidy
    \/ ExtractPurity
    \/ ExtractAllmatch
    \/ ExtractTcn
    \/ ExtractMcn
    \/ Concat

SpecExtract == InitExtract /\ [][NextExtract]_vars

-----------------------------------------------------------------------------
(* Properties of the returned table                                        *)

Row(group, key) == [group |-> group, key |-> key]

RowOrder ==
    <<Row("Obj1", <<>>), Row("Obj2", <<>>)>>
      \o [k \in 1..n_Samples |-> Row("pl", <<SampleSeq[k]>>)]
      \o [k \in 1..n_Samples |-> Row("pu", <<SampleSeq[k]>>)]
      \o [k \in 1..n_Segments |-> Row("allmatch", <<SegmentSeq[k]>>)]
      \o CellVars("tcn")
      \o CellVars("mcn")

(* The value row r has in the column of solution sol, in units of 1e-6    *)
ValueOfRow(sol, r, w4) ==
    CASE r.group = "Obj1" -> SumF(sol.allmatch, AllSegments) * Micro
      [] r.group = "Obj2" ->
            Round6(Q(0 - ((4 - w4) * TcnErrK(sol) + w4 * McnErrK(sol)), 4 * K))
      [] r.group = "pl" -> sol.pl[r.key[1]] * Micro
      [] r.group = "pu" -> Round6(Q(2, sol.z2[r.key[1]]))
      [] r.group = "allmatch" -> sol.allmatch[r.key[1]] * Micro
      [] r.group = "tcn" -> Round6(Q(TcnK(r.key[1], r.key[2], sol.pl, sol.z2), K))
      [] r.group = "mcn" -> Round6(Q(McnK(r.key[1], r.key[2], sol.pl, sol.z2), K))

(* C11: the returned table has one value column per pooled solution, at   *)
(* most sol_count of them; its rows are Obj1, Obj2, ploidy, purity,       *)
(* allmatch, TCN, MCN in this order; and every value of column i is the   *)
(* value of pooled solution i: Obj1 its n_clonal, Obj2 its weighted       *)
(* negated error, purity the reciprocal of its z, rounded to 6 decimals.  *)
C11_ColumnPerSolution ==
    xt.stage = "returned"
       => /\ Len(xt.out.columns) = XtSolCount
          /\ XtSolCount <= xt.sol_count
          /\ xt.out.Variable = RowOrder
          /\ \A c \in 1..Len(xt.out.columns) :
                /\ Len(xt.out.columns[c]) = Len(RowOrder)
                /\ \A r \in 1..Len(RowOrder) :
                      xt.out.columns[c][r] =
                          ValueOfRow(xt.pool[c], RowOrder[r], xt.mcn_weight4)

C11_Witness ==
    /\ xt.stage = "returned"
    /\ Len(xt.out.columns) = 2
    /\ xt.mcn_weight4 = 1
    /\ xt.out.columns[1] # xt.out.columns[2]
    /\ xt.out.columns[1][1] # xt.out.columns[2][1]
    /\ xt.out.columns[1][2] # xt.out.columns[2][2]
    /\ xt.out.columns[1][2] < 0
    /\ xt.out.columns[1][5] = 666667
    /\ xt.out.columns[2][5] = Micro

=============================================================================
